---- MODULE Spec2Model ----
(***************************************************************************)
(* The hoots router (controllers/hoots.js) over the Hoot collection        *)
(* (models/hoot.js).  The state is the collection, the identifiers the     *)
(* store has handed out, the post updates and deletes that have passed     *)
(* their ownership lookup and still wait for their store write, and the    *)
(* last response sent.                                                     *)
(*                                                                         *)
(* Identities (ObjectIds, req.user._id) are strings; Null stands for a     *)
(* null or undefined value, on which .equals() and .toString() throw.      *)
(* A request body ranges over the schema paths of the document it is cast  *)
(* to; Missing marks a path the body does not carry.                       *)
(***************************************************************************)
EXTENDS Integers, Sequences, FiniteSets, Bags, TLC

VARIABLES hoots, creator, nextHootId, nextCommentId, inflight, requests, res

vars == <<hoots, creator, nextHootId, nextCommentId, inflight, requests, res>>

\* ---- bounds ----
\* requests issued in one behaviour
MaxRequests == 3

\* ---- values ----
Users == {"u1", "u2"}
Null == "null"
Missing == "missing"

\* enum of hootSchema.category
Categories == {"News", "Sports", "Games", "Movies", "Music", "Television"}

CommentTexts == {"nice"}
EditedTexts == {"edit"}

\* ids of comments the store has handed out so far (visible to clients)
SeenCommentIds == 1..(nextCommentId - 1)

\* a comment as a client may put it in a body: id 0 means no _id is supplied
CommentInputs ==
    [id : {0} \cup SeenCommentIds, text : CommentTexts, author : {"u1", Missing}]

\* the three fields of the hoot form as a client sends them: none of them,
\* a valid form, or a form whose category is outside the enum
Forms ==
    { [title |-> Missing, text |-> Missing, category |-> Missing],
      [title |-> "Hi", text |-> "World", category |-> "News"],
      [title |-> "Yo", text |-> "Owl", category |-> "Bogus"] }

Body(form, author, hasComments, comments) ==
    [title |-> form.title, text |-> form.text, category |-> form.category,
     author |-> author, hasComments |-> hasComments, comments |-> comments]

\* bodies of POST / and PUT /:hootId: a form, and at most one of the paths
\* author and comments besides
HootBodies ==
    { Body(f, a, FALSE, <<>>) : f \in Forms, a \in Users \cup {Null, Missing} }
    \cup { Body(f, Missing, TRUE, <<>>) : f \in Forms }
    \cup { Body(f, Missing, TRUE, <<c>>) : f \in Forms, c \in CommentInputs }

\* bodies of POST /:hootId/comments
CommentBodies ==
    [id : {0} \cup SeenCommentIds, text : CommentTexts \cup {Missing},
     author : {"u2", Missing}]

\* ---- the schema (models/hoot.js) ----

\* commentSchema cast of one array element: a supplied _id is kept, otherwise
\* the store generates the next one; an absent author is undefined
CastComment(c, fresh) ==
    [id |-> IF c.id = 0 THEN fresh ELSE c.id,
     text |-> c.text,
     author |-> IF c.author = Missing THEN Null ELSE c.author]

\* number of elements of cs[1..n] that need a generated id
RECURSIVE Generated(_, _)
Generated(cs, n) ==
    IF n = 0 THEN 0
    ELSE Generated(cs, n - 1) + (IF cs[n].id = 0 THEN 1 ELSE 0)

\* [commentSchema] cast of a comments array
CastComments(cs, fresh) ==
    [i \in 1..Len(cs) |-> CastComment(cs[i], fresh + Generated(cs, i - 1))]

\* required / enum validators of hootSchema and commentSchema
ValidHoot(doc) ==
    /\ doc.title # Missing
    /\ doc.text # Missing
    /\ doc.category \in Categories
    /\ \A i \in 1..Len(doc.comments) : doc.comments[i].text # Missing

\* ---- store operations ----

\* Hoot.findById: the document, or null
Found(id) == id \in DOMAIN hoots

\* hoot.comments.id(commentId): index of the first subdocument with that _id,
\* 0 for null
CommentIndex(cs, cid) ==
    IF \E i \in 1..Len(cs) : cs[i].id = cid
    THEN CHOOSE i \in 1..Len(cs) :
            cs[i].id = cid /\ \A j \in 1..(i - 1) : cs[j].id # cid
    ELSE 0

\* hoot.comments.remove({_id}): pulls every subdocument with that _id
RECURSIVE Pull(_, _)
Pull(cs, cid) ==
    IF cs = <<>> THEN <<>>
    ELSE IF Head(cs).id = cid THEN Pull(Tail(cs), cid)
         ELSE <<Head(cs)>> \o Pull(Tail(cs), cid)

\* hoot.comments.push(req.body): the new subdocument goes last
Unshift(cs, c) == <<c>> \o cs

Push(cs, c) == Append(cs, c)

ApplyFormOnly(doc, b) ==
    [doc EXCEPT !.title = IF b.title = Missing THEN @ ELSE b.title,
                !.text = IF b.text = Missing THEN @ ELSE b.text,
                !.category = IF b.category = Missing THEN @ ELSE b.category]

\* Hoot.findByIdAndUpdate(id, body): $set of every path the body carries,
\* cast to the schema, validators not run
ApplyUpdate(doc, b) ==
    [title |-> IF b.title = Missing THEN doc.title ELSE b.title,
     text |-> IF b.text = Missing THEN doc.text ELSE b.text,
     category |-> IF b.category = Missing THEN doc.category ELSE b.category,
     author |-> IF b.author = Missing THEN doc.author ELSE b.author,
     comments |-> IF b.hasComments THEN CastComments(b.comments, nextCommentId)
                  ELSE doc.comments]

\* new Hoot(req.body) after req.body.author = req.user._id
NewHoot(caller, b) ==
    [title |-> b.title, text |-> b.text, category |-> b.category,
     author |-> caller,
     comments |-> IF b.hasComments THEN CastComments(b.comments, nextCommentId)
                  ELSE <<>>]

\* hoot.author.equals(req.user._id); throws when the author is null
IsAuthor(doc, caller) == doc.author = caller

\* comment.author.toString() !== req.user._id, negated
IsCommentAuthor(comment, caller) == comment.author = caller

\* what res.json serialises: nothing, or one value
NoJson == <<>>
Json(v) == <<v>>

\* a response, res.status(status).json(json), of the handler op
Response(op, status, json) == [op |-> op, status |-> status, json |-> json]

\* a post update or delete between its ownership lookup and its store write
InFlight(op, caller, hootId) == [op |-> op, caller |-> caller, hootId |-> hootId]

\* ids a request may name: every id handed out, and one that none has
HootIdParams == 1..nextHootId
CommentIdParams == 1..nextCommentId

Remove(f, id) == [i \in DOMAIN f \ {id} |-> f[i]]

\* find({}).sort({createdAt: "desc"}): the documents of ids hi..1, newest first
RECURSIVE NewestFirst(_)
NewestFirst(hi) ==
    IF hi = 0 THEN <<>>
    ELSE (IF Found(hi) THEN <<hoots[hi]>> ELSE <<>>) \o NewestFirst(hi - 1)

Init ==
    /\ hoots = [i \in {} |-> Null]
    /\ creator = [i \in {} |-> Null]
    /\ nextHootId = 1
    /\ nextCommentId = 1
    /\ inflight = EmptyBag
    /\ requests = 0
    /\ res = Response("none", 0, NoJson)

\* ---- POST / ----
Create(caller, b) ==
    /\ requests < MaxRequests
    /\ requests' = requests + 1
    /\ LET hoot == NewHoot(caller, b) IN
       IF ValidHoot(hoot)
       THEN /\ hoots' = hoots @@ (nextHootId :> hoot)
            /\ creator' = creator @@ (nextHootId :> caller)
            /\ nextHootId' = nextHootId + 1
            /\ nextCommentId' = nextCommentId + Generated(b.comments, Len(b.comments))
            /\ res' = Response("create", 201, Json(hoot))
       ELSE /\ res' = Response("create", 500, NoJson)
            /\ UNCHANGED <<hoots, creator, nextHootId, nextCommentId>>
    /\ UNCHANGED inflight

\* ---- GET / ----
Index(caller) ==
    /\ requests < MaxRequests
    /\ requests' = requests + 1
    /\ res' = Response("index", 200, Json(NewestFirst(nextHootId - 1)))
    /\ UNCHANGED <<hoots, creator, nextHootId, nextCommentId, inflight>>

\* ---- GET /:hootId ----
Show(caller, hootId) ==
    /\ requests < MaxRequests
    /\ requests' = requests + 1
    /\ res' = Response("show", 200,
                       IF Found(hootId) THEN Json(hoots[hootId]) ELSE NoJson)
    /\ UNCHANGED <<hoots, creator, nextHootId, nextCommentId, inflight>>

\* ---- PUT /:hootId and DELETE /:hootId, up to the ownership check ----
\* findById, then hoot.author.equals(req.user._id): a TypeError (no hoot, or
\* no author) is caught as 500, a non-author gets 403, the author goes on to
\* the store write
Lookup(op, caller, hootId) ==
    /\ requests < MaxRequests
    /\ requests' = requests + 1
    /\ IF ~Found(hootId) \/ (Found(hootId) /\ hoots[hootId].author = Null)
       THEN /\ res' = Response(op, 500, NoJson)
            /\ UNCHANGED inflight
       ELSE IF ~IsAuthor(hoots[hootId], caller)
       THEN /\ res' = Response(op, 403, NoJson)
            /\ UNCHANGED inflight
       ELSE /\ inflight' = inflight (+) SetToBag({InFlight(op, caller, hootId)})
            /\ UNCHANGED res
    /\ UNCHANGED <<hoots, creator, nextHootId, nextCommentId>>

PutLookup(caller, hootId) == Lookup("put", caller, hootId)

DeleteLookup(caller, hootId) == Lookup("delete", caller, hootId)

\* ---- PUT /:hootId, from findByIdAndUpdate on ----
\* req.body is first read here; a null result makes updatedHoot._doc throw
PutWrite(r, b) ==
    /\ r.op = "put"
    /\ LET hootId == r.hootId
           caller == r.caller IN
       IF Found(hootId)
       THEN LET updatedHoot == ApplyUpdate(hoots[hootId], b) IN
            /\ hoots' = [hoots EXCEPT ![hootId] = updatedHoot]
            /\ nextCommentId' = nextCommentId +
                  (IF b.hasComments THEN Generated(b.comments, Len(b.comments)) ELSE 0)
            /\ res' = Response("put", 200,
                               Json([updatedHoot EXCEPT !.author = caller]))
       ELSE /\ res' = Response("put", 500, NoJson)
            /\ UNCHANGED <<hoots, nextCommentId>>
    /\ inflight' = inflight (-) SetToBag({r})
    /\ UNCHANGED <<creator, nextHootId, requests>>

\* ---- DELETE /:hootId, from findByIdAndDelete on ----
\* a null result is sent as it is, with 200
DeleteWrite(r) ==
    /\ r.op = "delete"
    /\ LET hootId == r.hootId IN
       IF Found(hootId)
       THEN /\ hoots' = Remove(hoots, hootId)
            /\ res' = Response("delete", 200, Json(hoots[hootId]))
       ELSE /\ res' = Response("delete", 200, NoJson)
            /\ UNCHANGED hoots
    /\ inflight' = inflight (-) SetToBag({r})
    /\ UNCHANGED <<creator, nextHootId, nextCommentId, requests>>

\* ---- POST /:hootId/comments ----
\* findById, push and save are taken as one step of the store
AddComment(caller, hootId, b) ==
    /\ requests < MaxRequests
    /\ requests' = requests + 1
    /\ IF ~Found(hootId) \/ b.text = Missing
       THEN /\ res' = Response("addComment", 500, NoJson)
            /\ UNCHANGED <<hoots, nextCommentId>>
       ELSE LET newComment == CastComment([b EXCEPT !.author = caller], nextCommentId) IN
            /\ hoots' = [hoots EXCEPT ![hootId].comments = Push(@, newComment)]
            /\ nextCommentId' = nextCommentId + (IF b.id = 0 THEN 1 ELSE 0)
            /\ res' = Response("addComment", 201,
                               Json(newComment))
    /\ UNCHANGED <<creator, nextHootId, inflight>>

\* the part PUT and DELETE /:hootId/comments/:commentId share: 0 when the
\* handler goes on, else the status it ends with
CommentGate(caller, hootId, commentId) ==
    IF ~Found(hootId) THEN 500
    ELSE LET i == CommentIndex(hoots[hootId].comments, commentId) IN
         IF i = 0 THEN 500
         ELSE IF hoots[hootId].comments[i].author = Null THEN 500
         ELSE IF ~IsCommentAuthor(hoots[hootId].comments[i], caller) THEN 403
         ELSE 0

\* ---- PUT /:hootId/comments/:commentId ----
UpdateComment(caller, hootId, commentId, text) ==
    /\ requests < MaxRequests
    /\ requests' = requests + 1
    /\ LET gate == CommentGate(caller, hootId, commentId) IN
       IF gate # 0
       THEN /\ res' = Response("updateComment", gate, NoJson)
            /\ UNCHANGED hoots
       ELSE IF text = Missing
       THEN /\ res' = Response("updateComment", 500, NoJson)
            /\ UNCHANGED hoots
       ELSE LET i == CommentIndex(hoots[hootId].comments, commentId) IN
            /\ hoots' = [hoots EXCEPT ![hootId].comments[i].text = text]
            /\ res' = Response("updateComment", 200, NoJson)
    /\ UNCHANGED <<creator, nextHootId, nextCommentId, inflight>>

\* ---- DELETE /:hootId/comments/:commentId ----
DeleteComment(caller, hootId, commentId) ==
    /\ requests < MaxRequests
    /\ requests' = requests + 1
    /\ LET gate == CommentGate(caller, hootId, commentId) IN
       IF gate # 0
       THEN /\ res' = Response("deleteComment", gate, NoJson)
            /\ UNCHANGED hoots
       ELSE /\ hoots' = [hoots EXCEPT ![hootId].comments = Pull(@, commentId)]
            /\ res' = Response("deleteComment", 200, NoJson)
    /\ UNCHANGED <<creator, nextHootId, nextCommentId, inflight>>

Next ==
    \/ \E caller \in Users, b \in HootBodies : Create(caller, b)
    \/ \E caller \in Users : Index(caller)
    \/ \E caller \in Users, hootId \in HootIdParams : Show(caller, hootId)
    \/ \E caller \in Users, hootId \in HootIdParams : PutLookup(caller, hootId)
    \/ \E caller \in Users, hootId \in HootIdParams : DeleteLookup(caller, hootId)
    \/ \E r \in BagToSet(inflight), b \in HootBodies : PutWrite(r, b)
    \/ \E r \in BagToSet(inflight) : DeleteWrite(r)
    \/ \E caller \in Users, hootId \in HootIdParams, b \in CommentBodies :
          AddComment(caller, hootId, b)
    \/ \E caller \in Users, hootId \in HootIdParams, commentId \in CommentIdParams,
          text \in EditedTexts \cup {Missing} :
          UpdateComment(caller, hootId, commentId, text)
    \/ \E caller \in Users, hootId \in HootIdParams, commentId \in CommentIdParams :
          DeleteComment(caller, hootId, commentId)

Spec == Init /\ [][Next]_vars

\* ---- properties ----

\* the same post, comments apart
SameFields(old, new) ==
    /\ new.title = old.title
    /\ new.text = old.text
    /\ new.category = old.category
    /\ new.author = old.author

\* cs without its element at position i
Without(cs, i) == SubSeq(cs, 1, i - 1) \o SubSeq(cs, i + 1, Len(cs))

Success == {200, 201}

\* C1: a PUT or DELETE /:hootId by a caller who is not the stored post's
\* author ends with 403 and leaves the collection as it was.
C1_NonAuthorForbidden ==
    [][\A caller \in Users, hootId \in HootIdParams :
          /\ PutLookup(caller, hootId) \/ DeleteLookup(caller, hootId)
          /\ Found(hootId)
          /\ hoots[hootId].author # caller
          => res'.status = 403 /\ hoots' = hoots]_vars

\* C2: a PUT or DELETE of a comment by a caller who is not the author of a
\* comment with that id ends with 403 and leaves the comment list as it was.
C2_NonAuthorCommentForbidden ==
    [][\A caller \in Users, hootId \in HootIdParams, commentId \in CommentIdParams :
          /\ \/ \E text \in EditedTexts \cup {Missing} :
                   UpdateComment(caller, hootId, commentId, text)
             \/ DeleteComment(caller, hootId, commentId)
          /\ Found(hootId)
          /\ \E i \in 1..Len(hoots[hootId].comments) :
                /\ hoots[hootId].comments[i].id = commentId
                /\ hoots[hootId].comments[i].author # caller
          => res'.status = 403 /\ hoots' = hoots]_vars

\* C3: every stored post's author is the caller of the create request that
\* produced it.
C3_AuthorIsCreator ==
    \A hootId \in DOMAIN hoots : hoots[hootId].author = creator[hootId]

\* C4: every stored post's category is one of the six values of the enum.
C4_CategoryInEnum ==
    \A hootId \in DOMAIN hoots : hoots[hootId].category \in Categories

\* C5: a comment of a post that stays in the store changes or leaves the
\* post's comment list only in a comment update or delete whose caller is the
\* comment's author.
C5_OnlyCommentAuthorMutates ==
    [][\A hootId \in DOMAIN hoots \cap DOMAIN hoots' :
          \A i \in 1..Len(hoots[hootId].comments) :
             LET c == hoots[hootId].comments[i] IN
             (~\E j \in 1..Len(hoots'[hootId].comments) :
                  hoots'[hootId].comments[j] = c)
             => \E commentId \in CommentIdParams :
                   \/ DeleteComment(c.author, hootId, commentId)
                   \/ \E text \in EditedTexts \cup {Missing} :
                         UpdateComment(c.author, hootId, commentId, text)]_vars

\* C6: a comment delete that answers 200 removes exactly one element, the
\* comment with the given id, keeps the others in order, and keeps the post's
\* other fields.
C6_DeleteRemovesExactlyOne ==
    [][\A caller \in Users, hootId \in HootIdParams, commentId \in CommentIdParams :
          DeleteComment(caller, hootId, commentId) /\ res'.status = 200
          => /\ Found(hootId) /\ hootId \in DOMAIN hoots'
             /\ SameFields(hoots[hootId], hoots'[hootId])
             /\ \E i \in 1..Len(hoots[hootId].comments) :
                   /\ hoots[hootId].comments[i].id = commentId
                   /\ hoots'[hootId].comments = Without(hoots[hootId].comments, i)]_vars

\* C7: a create that answers 201 stores, and returns, a post with an empty
\* comment list, whatever the body carries.
C7_CreatedWithoutComments ==
    [][\A caller \in Users, b \in HootBodies :
          Create(caller, b) /\ res'.status = 201
          => /\ hoots'[nextHootId].comments = <<>>
             /\ res'.json[1].comments = <<>>]_vars

\* C8: an addComment that answers 201 appends exactly one comment, with the
\* caller as author and the supplied text, after the comments the post had,
\* which stay as they were; the response carries that last element; the post's
\* other fields and the other posts stay as they were.
C8_AddCommentAppends ==
    [][\A caller \in Users, hootId \in HootIdParams, b \in CommentBodies :
          AddComment(caller, hootId, b) /\ res'.status \in Success
          => /\ res'.status = 201
             /\ Found(hootId) /\ DOMAIN hoots' = DOMAIN hoots
             /\ \A other \in DOMAIN hoots \ {hootId} : hoots'[other] = hoots[other]
             /\ SameFields(hoots[hootId], hoots'[hootId])
             /\ LET old == hoots[hootId].comments
                    new == hoots'[hootId].comments IN
                /\ Len(new) = Len(old) + 1
                /\ SubSeq(new, 1, Len(old)) = old
                /\ new[Len(new)].author = caller
                /\ new[Len(new)].text = b.text
                /\ res'.json = <<new[Len(new)]>>]_vars

\* an addComment by someone other than the post's author answered 201 and its
\* comment stands last, after an earlier one
C8_Witness ==
    /\ res.op = "addComment" /\ res.status = 201
    /\ \E hootId \in DOMAIN hoots :
          LET cs == hoots[hootId].comments IN
          /\ Len(cs) >= 2
          /\ res.json = <<cs[Len(cs)]>>
          /\ cs[Len(cs)].author # hoots[hootId].author

\* C9: a request that names a post, or a comment, that is not in the store
\* never ends with a success status and leaves the collection as it was.
C9_AbsentIsFailure ==
    [][\A caller \in Users, hootId \in HootIdParams :
          /\ Show(caller, hootId) /\ ~Found(hootId)
             => res'.status \notin Success /\ hoots' = hoots
          /\ (\E b \in CommentBodies : AddComment(caller, hootId, b)) /\ ~Found(hootId)
             => res'.status \notin Success /\ hoots' = hoots
          /\ \A commentId \in CommentIdParams :
                /\ \/ \E text \in EditedTexts \cup {Missing} :
                         UpdateComment(caller, hootId, commentId, text)
                   \/ DeleteComment(caller, hootId, commentId)
                /\ \/ ~Found(hootId)
                   \/ CommentIndex(hoots[hootId].comments, commentId) = 0
                => res'.status \notin Success /\ hoots' = hoots]_vars

====
